---- MODULE Spec2Model ----
(***************************************************************************)
(* CPC Scout, variant 1 (src/app.py): the Local Similarity Engine.         *)
(*                                                                         *)
(* load_engine builds a 16-row table of (code, description), a TF-IDF      *)
(* vectorizer and the TF-IDF matrix once per process.  search_and_cluster  *)
(* scores a query against the matrix, keeps the top_n positive scores and  *)
(* lays the kept rows out in 2D; main renders a chart and a table.         *)
(*                                                                         *)
(* Representation.                                                         *)
(*  - A text is the sequence of its maximal runs of word characters        *)
(*    (what the token pattern \w+ would find), case preserved; "" is <<>>. *)
(*  - Real numbers are fixed point: weights and norms in 1/1000            *)
(*    (Milli), similarity scores in 1/1000000.                             *)
(*  - A data frame is [index |-> row labels, cols |-> name -> column].     *)
(*  - Python's None is <<>> and a value v that may be None is <<v>>.       *)
(***************************************************************************)
EXTENDS Integers, Naturals, Sequences, FiniteSets, TLC

VARIABLES frames, vectorizer, tfidf_matrix, pc, args, ret, ui

vars == <<frames, vectorizer, tfidf_matrix, pc, args, ret, ui>>

----------------------------------------------------------------------------
(* Bounds of the model *)

\* longest query, in word runs
MaxQueryLen == 3

\* largest explicit top_n besides the default
MaxTopN == 2

----------------------------------------------------------------------------
(* The demo corpus, app.py lines 16-41 *)

Codes ==
  << <<"B64C", "39", "02">>, <<"G06N", "3", "00">>, <<"H04L", "9", "00">>,
     <<"A61B", "5", "00">>,  <<"B60W", "30", "00">>, <<"G06Q", "20", "00">>,
     <<"F03D", "1", "00">>,  <<"H01M", "10", "00">>, <<"G06F", "40", "20">>,
     <<"H04W", "4", "00">>,  <<"B64D", "1", "00">>,  <<"G06N", "20", "00">>,
     <<"H04L", "63", "00">>, <<"A61B", "5", "02">>,  <<"B60W", "40", "00">>,
     <<"G06Q", "30", "00">> >>

Descriptions ==
  << <<"Aircraft", "not", "otherwise", "provided", "for", "Unmanned", "aerial",
       "vehicles", "drones">>,
     <<"Computer", "systems", "based", "on", "biological", "models",
       "Artificial", "Intelligence", "Neural", "Networks">>,
     <<"Cryptographic", "mechanisms", "or", "cryptographic", "arrangements",
       "for", "secret", "communication">>,
     <<"Measuring", "for", "diagnostic", "purposes", "Identification", "of",
       "persons">>,
     <<"Road", "vehicle", "drive", "control", "systems", "Autonomous",
       "Driving", "ADAS">>,
     <<"Payment", "architectures", "schemes", "or", "protocols", "Fintech">>,
     <<"Wind", "motors", "with", "rotation", "axis", "substantially",
       "parallel", "to", "the", "air", "flow">>,
     <<"Secondary", "cells", "Manufacture", "thereof", "Batteries", "Li",
       "Ion">>,
     <<"Natural", "language", "processing", "NLP", "Text", "analysis">>,
     <<"Services", "making", "use", "of", "wireless", "communication",
       "networks">>,
     <<"Dropping", "or", "releasing", "articles", "from", "aircraft">>,
     <<"Machine", "Learning">>,
     <<"Network", "architectures", "or", "network", "communication",
       "protocols", "for", "network", "security">>,
     <<"Measuring", "pulse", "heart", "rate", "blood", "pressure">>,
     <<"Estimation", "or", "calculation", "of", "driving", "parameters", "for",
       "road", "vehicle", "drive", "control">>,
     <<"Commerce", "e", "g", "shopping", "or", "auctions">> >>

\* pd.DataFrame(data): rows labelled in order, one column per key
DataFrame(data) ==
  [index |-> [i \in 1..Len(data.code) |-> i],
   cols  |-> [c \in {"code", "description"} |-> data[c]]]

\* pd.DataFrame(): no rows, no columns
EmptyFrame == [index |-> <<>>, cols |-> <<>>]

None == <<>>

Some(v) == <<v>>

----------------------------------------------------------------------------
(* TfidfVectorizer(stop_words='english'), as app.py line 48 configures it *)

\* str.lower on the word runs that occur in the corpus and the queries
LowerTable ==
  [w \in {"B64C", "G06N", "H04L", "A61B", "B60W", "G06Q", "F03D", "H01M",
          "G06F", "H04W", "B64D", "Aircraft", "Unmanned", "Computer",
          "Artificial", "Intelligence", "Neural", "Networks", "Cryptographic",
          "Measuring", "Identification", "Road", "Autonomous", "Driving",
          "ADAS", "Payment", "Fintech", "Wind", "Secondary", "Manufacture",
          "Batteries", "Li", "Ion", "Natural", "NLP", "Text", "Services",
          "Dropping", "Machine", "Learning", "Network", "Estimation",
          "Commerce", "The"} |->
     CASE w = "B64C" -> "b64c" [] w = "G06N" -> "g06n" [] w = "H04L" -> "h04l"
       [] w = "A61B" -> "a61b" [] w = "B60W" -> "b60w" [] w = "G06Q" -> "g06q"
       [] w = "F03D" -> "f03d" [] w = "H01M" -> "h01m" [] w = "G06F" -> "g06f"
       [] w = "H04W" -> "h04w" [] w = "B64D" -> "b64d"
       [] w = "Aircraft" -> "aircraft" [] w = "Unmanned" -> "unmanned"
       [] w = "Computer" -> "computer" [] w = "Artificial" -> "artificial"
       [] w = "Intelligence" -> "intelligence" [] w = "Neural" -> "neural"
       [] w = "Networks" -> "networks" [] w = "Cryptographic" -> "cryptographic"
       [] w = "Measuring" -> "measuring"
       [] w = "Identification" -> "identification" [] w = "Road" -> "road"
       [] w = "Autonomous" -> "autonomous" [] w = "Driving" -> "driving"
       [] w = "ADAS" -> "adas" [] w = "Payment" -> "payment"
       [] w = "Fintech" -> "fintech" [] w = "Wind" -> "wind"
       [] w = "Secondary" -> "secondary" [] w = "Manufacture" -> "manufacture"
       [] w = "Batteries" -> "batteries" [] w = "Li" -> "li" [] w = "Ion" -> "ion"
       [] w = "Natural" -> "natural" [] w = "NLP" -> "nlp" [] w = "Text" -> "text"
       [] w = "Services" -> "services" [] w = "Dropping" -> "dropping"
       [] w = "Machine" -> "machine" [] w = "Learning" -> "learning"
       [] w = "Network" -> "network" [] w = "Estimation" -> "estimation"
       [] w = "Commerce" -> "commerce" [] w = "The" -> "the"]

\* Lower with the lowercasing left out
Lower_Identity(w) == w

Lower(w) == IF w \in DOMAIN LowerTable THEN LowerTable[w] ELSE w

\* the word runs of one character: token_pattern \b\w\w+\b does not match them
OneChar == {"1", "3", "4", "5", "9", "e", "g"}

\* the members of sklearn's ENGLISH_STOP_WORDS among the words of the model
ENGLISH_STOP_WORDS ==
  {"not", "otherwise", "for", "on", "or", "of", "with", "to", "the", "from"}

Range(s) == {s[k] : k \in 1..Len(s)}

RECURSIVE Tabulate(_, _)
Tabulate(f, S) ==
  IF S = {} THEN <<>>
  ELSE LET k == CHOOSE k \in S : TRUE IN (k :> f[k]) @@ Tabulate(f, S \ {k})

\* the function f with every value computed once (a function expression is
\* otherwise computed again at each application)
Eval(f) == Tabulate(f, DOMAIN f)

RECURSIVE TabulateSeq(_, _)
TabulateSeq(s, n) == IF n = 0 THEN <<>> ELSE Append(TabulateSeq(s, n - 1), s[n])

\* the same for a sequence
EvalSeq(s) == TabulateSeq(s, Len(s))

\* build_analyzer: lowercase, tokens of two or more characters, stop words out
Analyze(text) ==
  LET lowered == EvalSeq([k \in 1..Len(text) |-> Lower(text[k])])
      tokens  == SelectSeq(lowered, LAMBDA w : w \notin OneChar)
  IN  SelectSeq(tokens, LAMBDA w : w \notin ENGLISH_STOP_WORDS)

Count(s, w) == Cardinality({k \in 1..Len(s) : s[k] = w})

RECURSIVE SumOver(_, _)
\* the sum of f over its finite set of keys S
SumOver(f, S) ==
  IF S = {} THEN 0
  ELSE LET k == CHOOSE k \in S : TRUE IN f[k] + SumOver(f, S \ {k})

RECURSIVE SqrtBetween(_, _, _)
SqrtBetween(n, lo, hi) ==
  IF lo >= hi THEN lo
  ELSE LET mid == (lo + hi + 1) \div 2
       IN  IF mid * mid <= n THEN SqrtBetween(n, mid, hi)
           ELSE SqrtBetween(n, lo, mid - 1)

\* floor of the square root
ISqrt(n) == SqrtBetween(n, 0, 46340)

Milli == 1000

\* ln((1 + 16) / (1 + df)) + 1 in 1/1000, for df = 1..16 (smooth_idf)
SmoothIdfMilli ==
  <<3140, 2735, 2447, 2224, 2041, 1887, 1754, 1636, 1531, 1435, 1348, 1268,
    1194, 1125, 1061, 1000>>

\* the Euclidean norm of a vector of Milli weights
Norm(v) == ISqrt(SumOver([t \in DOMAIN v |-> v[t] * v[t]], DOMAIN v))

\* sklearn normalize(norm='l2'): a zero row is left as it is
L2Normalize(v) ==
  LET n == Norm(v)
      d == IF n = 0 THEN Milli ELSE n
  IN  Eval([t \in DOMAIN v |-> (v[t] * Milli) \div d])

\* transform of one text: term counts over the vocabulary, times idf, L2 norm.
\* A vector is the function from its non-zero terms to their weights.
Transform(vec, text) ==
  LET tokens == Analyze(text)
      terms  == Range(tokens) \cap vec.vocabulary
  IN  L2Normalize(Eval([t \in terms |-> Count(tokens, t) * vec.idf[t]]))

\* fit: the vocabulary and each term's smoothed inverse document frequency
Fit(texts) ==
  LET docs  == EvalSeq([i \in 1..Len(texts) |-> Analyze(texts[i])])
      vocab == UNION {Range(docs[i]) : i \in 1..Len(texts)}
      df(t) == Cardinality({i \in 1..Len(texts) : t \in Range(docs[i])})
  IN  [vocabulary |-> vocab, idf |-> [t \in vocab |-> SmoothIdfMilli[df(t)]]]

FitTransform(texts) ==
  LET vec == Fit(texts)
  IN  [vectorizer |-> vec,
       matrix |-> EvalSeq([i \in 1..Len(texts) |-> Transform(vec, texts[i])])]

\* load_engine
LoadEngine ==
  LET df0 == DataFrame([code |-> Codes, description |-> Descriptions])
      search_text == [i \in 1..Len(df0.index) |->
                        df0.cols["code"][i] \o df0.cols["description"][i]]
      df1 == [df0 EXCEPT !.cols = [c \in DOMAIN df0.cols \cup {"search_text"} |->
                IF c = "search_text" THEN search_text ELSE df0.cols[c]]]
      ft  == FitTransform(df1.cols["search_text"])
  IN  [df |-> df1, vectorizer |-> ft.vectorizer, tfidf_matrix |-> ft.matrix]

----------------------------------------------------------------------------
(* Helpers of search_and_cluster, app.py lines 56-87 *)

Docs == 1..Len(Codes)

\* Python truthiness of a str: the empty string is falsy
Truthy(query) == query /= <<>>

\* sklearn cosine_similarity(X, Y): both sides L2-normalised again, then the
\* dot product; one score per row of the matrix, in 1/1000000
CosineSimilarity(query_vec, matrix) ==
  LET nq == IF Norm(query_vec) = 0 THEN Milli ELSE Norm(query_vec)
      nd(i) == IF Norm(matrix[i]) = 0 THEN Milli ELSE Norm(matrix[i])
      dot(i) == LET common == DOMAIN query_vec \cap DOMAIN matrix[i]
                IN  SumOver([t \in common |-> query_vec[t] * matrix[i][t]], common)
  IN  EvalSeq([i \in 1..Len(matrix) |->
                 (((dot(i) * Milli) \div nq) * Milli) \div nd(i)])

Index(s, x) == CHOOSE k \in 1..Len(s) : s[k] = x

RECURSIVE Arrangements(_, _)
\* every arrangement of the rows S in descending order of score
Arrangements(S, scores) ==
  IF S = {} THEN {<<>>}
  ELSE UNION {{<<i>> \o rest : rest \in Arrangements(S \ {i}, scores)} :
                i \in {j \in S : \A m \in S : scores[m] <= scores[j]}}

\* The orders in which numpy's argsort may leave equal scores: it promises no
\* order among them, so any order is possible.  An order is a sequence of all
\* row positions, and only its order of rows of equal score is used; here
\* every order of the equal positive scores, followed by the zero rows (which
\* line 65 drops whatever their order).
TieOrders(scores) ==
  LET pos   == {i \in DOMAIN scores : scores[i] > 0}
      zeros == SelectSeq([i \in DOMAIN scores |-> i], LAMBDA i : i \notin pos)
  IN  {p \o zeros : p \in Arrangements(pos, scores)}

\* ndarray.argsort(): the row positions in ascending order of score, equal
\* scores in the order tie gives them
Argsort(scores, tie) ==
  LET rank == EvalSeq([i \in 1..Len(scores) |-> Index(tie, i)])
      before(j, i) == \/ scores[j] < scores[i]
                      \/ scores[j] = scores[i] /\ rank[j] < rank[i]
      place == EvalSeq([i \in 1..Len(scores) |->
                 1 + Cardinality({j \in DOMAIN scores : before(j, i)})])
  IN  EvalSeq([k \in 1..Len(scores) |-> CHOOSE i \in DOMAIN scores : place[i] = k])

\* Reverse with the reversal left out
Reverse_Ascending(s) == s

\* s[::-1]
Reverse(s) == EvalSeq([k \in 1..Len(s) |-> s[Len(s) + 1 - k]])

\* SliceTo with the truncation left out
SliceTo_All(s, n) == s

\* SliceTo one element short
SliceTo_Short(s, n) == SubSeq(s, 1, IF n - 1 < Len(s) THEN n - 1 ELSE Len(s))

\* s[:n] for n >= 0
SliceTo(s, n) == SubSeq(s, 1, IF n < Len(s) THEN n ELSE Len(s))

\* KeepPositive with >= 0 for > 0
KeepPositive_OrZero(top_indices, scores) ==
  SelectSeq(top_indices, LAMBDA i : scores[i] >= 0)

\* [i for i in top_indices if similarity_scores[i] > 0]
KeepPositive(top_indices, scores) ==
  SelectSeq(top_indices, LAMBDA i : scores[i] > 0)

\* line 64-65
TopIndices(scores, top_n, tie) ==
  KeepPositive(SliceTo(Reverse(Argsort(scores, tie)), top_n), scores)

\* df.iloc[top_indices]: a new frame holding the rows at these positions
ILoc(fr, idx) ==
  [index |-> EvalSeq([k \in 1..Len(idx) |-> fr.index[idx[k]]]),
   cols  |-> Eval([c \in DOMAIN fr.cols |->
                     EvalSeq([k \in 1..Len(idx) |-> fr.cols[c][idx[k]]])])]

\* binding a name to a frame object
Bind(fs, name, fr) == [fs EXCEPT ![name] = fr]

\* SetItem on a frame that shares its columns with df: df gets the column too
SetItem_Shared(fs, name, col, column) ==
  [fs EXCEPT ![name].cols =
     Eval([c \in DOMAIN fs[name].cols \cup {col} |->
             IF c = col THEN EvalSeq(column) ELSE fs[name].cols[c]]),
             !["df"].cols =
     Eval([c \in DOMAIN fs["df"].cols \cup {col} |->
             IF c = col THEN EvalSeq(column) ELSE fs["df"].cols[c]])]

\* name[col] = column: the frame the name refers to gets the column
SetItem(fs, name, col, column) ==
  [fs EXCEPT ![name].cols =
     Eval([c \in DOMAIN fs[name].cols \cup {col} |->
             IF c = col THEN EvalSeq(column) ELSE fs[name].cols[c]])]

\* a real number given by a literal
Const(n) == [const |-> n]

\* PCA(n_components=2).fit_transform(X): for each sample, its coordinate on
\* the two principal components of X.  The projection itself is not computed:
\* a coordinate is the term naming the component, the sample and the size of
\* the fit.
PCAFitTransform(X) ==
  EvalSeq([k \in 1..Len(X) |->
             EvalSeq([c \in 1..2 |->
                        [component |-> c, sample |-> k, n_samples |-> Len(X)]])])

\* EnoughToProject with 2 for 3
EnoughToProject_Two(n) == n >= 2

\* line 78: len(results) >= 3
EnoughToProject(n) == n >= 3

DefaultTopN == 15

\* search_and_cluster(query, top_n): the frames after the call, the query
\* vector it returns (the frame it returns is the one bound to "results"), its
\* local similarity_scores (<<>> while unbound) and the return statement reached
search_and_cluster(fs, vec, matrix, query, top_n, tie) ==
  IF ~Truthy(query)
  THEN [frames |-> Bind(fs, "results", EmptyFrame), query_vec |-> None,
        similarity_scores |-> <<>>, line |-> 58]
  ELSE
    LET query_vec == Transform(vec, query)
        similarity_scores == CosineSimilarity(query_vec, matrix)
        top_indices == TopIndices(similarity_scores, top_n, tie)
    IN  IF top_indices = <<>>
        THEN [frames |-> Bind(fs, "results", EmptyFrame), query_vec |-> None,
              similarity_scores |-> similarity_scores, line |-> 68]
        ELSE
          LET n   == Len(top_indices)
              fs1 == Bind(fs, "results", ILoc(fs["df"], top_indices))
              fs2 == SetItem(fs1, "results", "relevance",
                             [k \in 1..n |-> similarity_scores[top_indices[k]]])
              result_vectors == EvalSeq([k \in 1..n |-> matrix[top_indices[k]]])
              components == PCAFitTransform(result_vectors)
              fs3 == IF EnoughToProject(Len(fs2["results"].index))
                     THEN SetItem(SetItem(fs2, "results", "x",
                                          [k \in 1..n |-> components[k][1]]),
                                  "results", "y", [k \in 1..n |-> components[k][2]])
                     ELSE SetItem(SetItem(fs2, "results", "x",
                                          [k \in 1..n |-> Const(0)]),
                                  "results", "y", [k \in 1..n |-> Const(0)])
          IN  [frames |-> fs3, query_vec |-> Some(query_vec),
               similarity_scores |-> similarity_scores, line |-> 87]

----------------------------------------------------------------------------
(* main, app.py lines 90-143 *)

\* DataFrame.empty: no rows or no columns
Empty(fr) == Len(fr.index) = 0 \/ DOMAIN fr.cols = {}

\* f"{x:.1%}": the percentage to one decimal, as its count of tenths of a
\* percent (round half to even)
PercentFormat(x) ==
  LET q == x \div Milli
      r == x % Milli
  IN  [percent_tenths |->
         IF r * 2 > Milli \/ (r * 2 = Milli /\ q % 2 = 1) THEN q + 1 ELSE q]

\* what the page shows below the form
Blank == [chart |-> None, info |-> FALSE, table |-> None, warning |-> FALSE]

\* Submitted without the test of the query
Submitted_AnyQuery(submit, query) == submit

\* if submit and query
Submitted(submit, query) == submit /\ Truthy(query)

\* EnoughToPlot with 2 for 3
EnoughToPlot_Two(n) == n >= 2

\* line 114: len(results) >= 3
EnoughToPlot(n) == n >= 3

\* lines 106-143: the widgets drawn for a result frame
Render(results) ==
  IF ~Empty(results)
  THEN LET n == Len(results.index)
           points == EvalSeq([k \in 1..n |->
                        [x |-> results.cols["x"][k], y |-> results.cols["y"][k],
                         relevance |-> results.cols["relevance"][k],
                         text |-> results.cols["code"][k]]])
           display_df == EvalSeq([k \in 1..n |->
                        [code |-> results.cols["code"][k],
                         description |-> results.cols["description"][k],
                         relevance |-> PercentFormat(results.cols["relevance"][k])]])
       IN  [chart |-> IF EnoughToPlot(n) THEN Some(points) ELSE None,
            info  |-> ~EnoughToPlot(n),
            table |-> Some(display_df),
            warning |-> FALSE]
  ELSE [Blank EXCEPT !.warning = TRUE]

----------------------------------------------------------------------------
(* The state machine *)

\* the query the form suggests, line 97
DemoQuery == <<"autonomous", "swarm", "drones">>

\* the word runs queries are made of: a vocabulary word, a word of no corpus
\* entry, a capitalised stop word, and the three numbers that between them
\* occur in every code
QueryWords == {"autonomous", "swarm", "The", "00", "02", "20"}

RECURSIVE SeqsUpTo(_, _)
SeqsUpTo(S, n) ==
  IF n = 0 THEN {<<>>}
  ELSE LET shorter == SeqsUpTo(S, n - 1)
       IN  shorter \cup {Append(q, w) : q \in shorter, w \in S}

Queries == SeqsUpTo(QueryWords, MaxQueryLen) \cup {DemoQuery}

TopNs == 0..MaxTopN \cup {DefaultTopN}

\* the similarity scores of a query against the matrix in use
ScoresOf(query) == CosineSimilarity(Transform(vectorizer, query), tfidf_matrix)

Init ==
  /\ frames = [df |-> LoadEngine.df, results |-> EmptyFrame]
  /\ vectorizer = LoadEngine.vectorizer
  /\ tfidf_matrix = LoadEngine.tfidf_matrix
  /\ pc = "idle"
  /\ args = <<>>
  /\ ret = <<>>
  /\ ui = Blank

\* a direct call search_and_cluster(query, top_n)
SearchAndCluster ==
  /\ pc = "idle"
  /\ \E query \in Queries, top_n \in TopNs :
       \E tie \in TieOrders(ScoresOf(query)) :
         \E r \in {search_and_cluster(frames, vectorizer, tfidf_matrix,
                                     query, top_n, tie)} :
             /\ frames' = r.frames
             /\ ret' = [query_vec |-> r.query_vec, line |-> r.line,
                         similarity_scores |-> r.similarity_scores]
             /\ args' = [fn |-> "search_and_cluster", query |-> query,
                         top_n |-> top_n]
  /\ pc' = "returned"
  /\ UNCHANGED <<vectorizer, tfidf_matrix, ui>>

\* one run of main with the form's state (submit, query)
Main ==
  /\ pc = "idle"
  /\ \E submit \in BOOLEAN, query \in Queries :
       /\ args' = [fn |-> "main", query |-> query, submit |-> submit]
       /\ IF Submitted(submit, query)
          THEN \E tie \in TieOrders(ScoresOf(query)) :
                 \E r \in {search_and_cluster(frames, vectorizer, tfidf_matrix,
                                             query, DefaultTopN, tie)} :
                     /\ frames' = r.frames
                     /\ ret' = [query_vec |-> r.query_vec, line |-> r.line,
                         similarity_scores |-> r.similarity_scores]
                     /\ ui' = Render(r.frames["results"])
          ELSE /\ ui' = Blank
               /\ UNCHANGED <<frames, ret>>
  /\ pc' = "rendered"
  /\ UNCHANGED <<vectorizer, tfidf_matrix>>

\* the next script run starts: the locals and the page of the last one are gone
Rerun ==
  /\ pc \in {"returned", "rendered"}
  /\ pc' = "idle"
  /\ frames' = Bind(frames, "results", EmptyFrame)
  /\ args' = <<>>
  /\ ret' = <<>>
  /\ ui' = Blank
  /\ UNCHANGED <<vectorizer, tfidf_matrix>>

Next == SearchAndCluster \/ Main \/ Rerun

Spec == Init /\ [][Next]_vars

----------------------------------------------------------------------------
(* What the claims speak of *)

\* the frame search_and_cluster returned
Results == frames["results"]

NRows == Len(Results.index)

\* search_and_cluster has been called and has returned: directly, or by main
Called ==
  \/ pc = "returned"
  \/ pc = "rendered" /\ Submitted(args.submit, args.query)

\* the top_n of the call: main leaves it at its default
TopN == IF pc = "returned" THEN args.top_n ELSE DefaultTopN

Column(name) == IF name \in DOMAIN Results.cols THEN Results.cols[name] ELSE <<>>

\* the similarity score of every corpus entry for the call's query
Scores ==
  IF ret.similarity_scores = <<>> THEN ScoresOf(args.query)
  ELSE ret.similarity_scores

Positive == {i \in DOMAIN Scores : Scores[i] > 0}

Min(a, b) == IF a < b THEN a ELSE b

\* the tokens of a text as the claims mean them: lowercase words of two or
\* more characters
WordsOf(text) == {Lower(text[k]) : k \in 1..Len(text)} \ OneChar

CorpusWords == UNION {WordsOf(Codes[i] \o Descriptions[i]) : i \in Docs}

\* the query's tokens after stop-word removal meet no corpus entry's text
NoOverlap(query) == (WordsOf(query) \ ENGLISH_STOP_WORDS) \cap CorpusWords = {}

----------------------------------------------------------------------------
(* The claims *)

\* C1: search_and_cluster(query, top_n) returns at most top_n rows, for every
\* query and every top_n >= 0 (at most 15 rows under the default top_n).
C1_AtMostTopNRows == Called => NRows <= TopN

\* C1 witness: main's call, default top_n, a query every entry matches: 15
\* of the 16 are returned
C1_Witness ==
  /\ pc = "rendered" /\ Submitted(args.submit, args.query)
  /\ Cardinality(Positive) = Len(Codes)
  /\ NRows = DefaultTopN

\* C2: the returned rows are in descending order of relevance, and each row's
\* relevance is the similarity score of that row's own corpus entry.
C2_DescendingRelevance ==
  Called =>
    /\ \A k \in 1..(NRows - 1) : Column("relevance")[k] >= Column("relevance")[k + 1]
    /\ \A k \in 1..NRows : Column("relevance")[k] = Scores[Results.index[k]]

\* C2 witness: three rows or more, each strictly less relevant than the last
C2_Witness ==
  /\ Called /\ NRows >= 3
  /\ \A k \in 1..(NRows - 1) : Column("relevance")[k] > Column("relevance")[k + 1]

\* C3: a query whose tokens, stop words removed, share no token with any
\* corpus entry's code and description gets an empty result: no rows, and None
\* for the query vector.
C3_NoOverlapEmpty ==
  Called /\ NoOverlap(args.query) => Results = EmptyFrame /\ ret.query_vec = None

\* C3 witness: a non-empty query of a stop word and a word no entry has, scored
\* and returned empty at line 68 although top_n rows were asked for
C3_Witness ==
  /\ pc = "returned" /\ args.top_n > 0 /\ ret.line = 68
  /\ args.query = <<"The", "swarm">>
  /\ NoOverlap(args.query)

\* C4: in a result of one or two rows every row has x = 0 and y = 0.
C4_FewRowsAtOrigin ==
  Called /\ NRows \in {1, 2} =>
    \A k \in 1..NRows : Column("x")[k] = Const(0) /\ Column("y")[k] = Const(0)

\* C4 witness: a result of exactly two rows
C4_Witness == Called /\ NRows = 2 /\ ret.line = 87

\* C5: search_and_cluster("") returns a frame of no rows before any score is
\* computed, and a submission of the empty query draws no chart, no table and
\* no warning.
C5_EmptyQuery ==
  /\ pc = "returned" /\ args.query = <<>> =>
       ret.line = 58 /\ NRows = 0 /\ Empty(Results) /\ ret.similarity_scores = <<>>
  /\ pc = "rendered" /\ args.query = <<>> =>
       ui.chart = None /\ ui.table = None /\ ~ui.warning /\ ~ui.info

\* C5 witness: the form submitted with the empty query
C5_Witness == pc = "rendered" /\ args.submit /\ args.query = <<>>

\* C6: under the default top_n the query "autonomous swarm drones" returns
\* both B64C 39/02 and B60W 30/00.
C6_DemoQuery ==
  Called /\ args.query = DemoQuery /\ TopN = DefaultTopN =>
    {<<"B64C", "39", "02">>, <<"B60W", "30", "00">>} \subseteq Range(Column("code"))

\* C6 witness: main run with that query
C6_Witness ==
  /\ pc = "rendered" /\ Submitted(args.submit, args.query)
  /\ args.query = DemoQuery
  /\ NRows = 2

\* C7: on a submission of a non-empty query the table is drawn whenever the
\* result has rows; the chart is drawn exactly when it has three or more; with
\* one or two the message takes the chart's place; no point at the default
\* origin is ever plotted.
C7_ChartOnlyFromThreeRows ==
  pc = "rendered" /\ Submitted(args.submit, args.query) =>
    /\ ~Empty(Results) => ui.table /= None
    /\ ui.chart /= None <=> NRows >= 3
    /\ NRows \in {1, 2} => ui.table /= None /\ ui.info /\ ui.chart = None
    /\ ui.chart /= None =>
         \A k \in 1..Len(ui.chart[1]) :
           ui.chart[1][k].x /= Const(0) /\ ui.chart[1][k].y /= Const(0)

\* C7 witness: a submission with two matches: table and message, no chart
C7_Witness ==
  /\ pc = "rendered" /\ Submitted(args.submit, args.query)
  /\ NRows = 2 /\ ui.table /= None /\ ui.info

\* C9: sorting, truncating to top_n and then dropping the scores <= 0 gives
\* what keeping the scores > 0, sorting and truncating gives: every returned
\* relevance is > 0, no entry is returned twice, the number of rows is
\* min(top_n, number of entries with score > 0), and no entry left out has a
\* higher score than one returned.
C9_SameAsFilterFirst ==
  Called =>
    /\ \A k \in 1..NRows : Column("relevance")[k] > 0
    /\ \A k, m \in 1..NRows : Results.index[k] = Results.index[m] => k = m
    /\ NRows = Min(TopN, Cardinality(Positive))
    /\ \A i \in Docs \ Range(Results.index) :
         \A k \in 1..NRows : Scores[i] <= Scores[Results.index[k]]

\* C9 witness: top_n cuts the matches: two rows returned, more entries match
C9_Witness ==
  /\ pc = "returned" /\ args.top_n = 2 /\ NRows = 2
  /\ Cardinality(Positive) > 2

\* C10: no call of search_and_cluster changes the corpus table, the vectorizer
\* or the TF-IDF matrix load_engine built, so what a call returns is what it
\* returns on the engine as first loaded, whatever was searched before.
C10_EngineUnchanged ==
  /\ frames["df"] = LoadEngine.df
  /\ vectorizer = LoadEngine.vectorizer
  /\ tfidf_matrix = LoadEngine.tfidf_matrix
  /\ Called =>
       \E tie \in TieOrders(Scores) :
         LET fresh == search_and_cluster(
                        [df |-> LoadEngine.df, results |-> EmptyFrame],
                        LoadEngine.vectorizer, LoadEngine.tfidf_matrix,
                        args.query, TopN, tie)
         IN  Results = fresh.frames["results"] /\ ret.query_vec = fresh.query_vec

\* C10 witness: a call that added the relevance, x and y columns to its result
C10_Witness ==
  /\ Called /\ ret.line = 87
  /\ {"relevance", "x", "y"} \subseteq DOMAIN Results.cols
====
